---- MODULE Spec2Model ----
(***************************************************************************)
(* Writing assistant: the rate-limited Gemini client (gemini_client.py)   *)
(* and the hotkey-triggered request flow (main.py, hotkey_manager.py,     *)
(* text_handler.py).                                                       *)
(*                                                                         *)
(* Time is the integer number of seconds read by time.time().  Strings    *)
(* are sequences of characters; Python's None is the value None below.    *)
(***************************************************************************)
EXTENDS Integers, Sequences, FiniteSets, TLC

(* ---- bounds of the model ---- *)
MaxLen == 1          \* longest string drawn for texts and responses
MaxQuota == 2        \* largest requests_per_minute drawn
MaxRetriesCfg == 3   \* largest max_retries drawn for the client called directly
MaxAppRetries == 2   \* largest max_retries drawn for the application
MaxTime == 61        \* calls and spontaneous time steps start no later than this
MaxEvents == 1       \* hotkey presses the OS holds for the listener

(* ---- program constants ---- *)
WINDOW == 60         \* the rate limiter's window, in seconds
RPM_LIMIT == 60      \* the largest requests_per_minute _validate accepts
BACKOFF_BASE == 2    \* base of the exponential backoff

Chars == {"a", " "}
None == <<"None">>
\* What an attempt that raised leaves in the record of outcomes.
Err == <<"Err">>
Texts == UNION {[1..n -> Chars] : n \in 0..MaxLen}

\* GeminiClient.PROMPTS: the keys of the prompt table.
PROMPTS == {"grammar_fix", "formal", "casual", "simplify", "expand"}

\* Modes handed to the client called directly: a table key and one that is no key.
ModeInputs == {"grammar_fix", "shout"}

\* The modes the registered hotkeys are bound to.
HotkeyModes == {"grammar_fix"}

\* Pasteboard contents, and what is selected in the focused application:
\* nothing, text, whitespace.
Clipboards == {None, <<"a">>, <<" ">>}

\* Steps by which time advances between two calls of the client called directly:
\* one of the first stays within the window, two reach its edge, the second
\* leaves it.
TickSteps == {30, 61}

\* ... and between two requests of the application: the window expires.
IdleSteps == {61}

VARIABLES
    requests_per_minute, \* GeminiClient.requests_per_minute
    max_retries,         \* GeminiClient.max_retries
    now,                 \* the clock time.time() reads
    request_times,       \* GeminiClient.request_times, oldest first
    cpc,                 \* position inside improve_text
    c_text, c_mode,      \* improve_text's arguments
    attempt,             \* the retry loop's index
    wait_time,           \* the duration of the pending sleep
    result,              \* improve_text's return value
    outcomes,            \* per generate_content attempt of this call: Err or the response text
    backoffs,            \* the backoff sleeps of this call, in order
    attempt_times,       \* per generate_content attempt of this call: when the request went out
    rl_wait,             \* how long this call slept in _check_rate_limit
    processing_lock,     \* WritingAssistant.processing_lock is held
    pc,                  \* per thread: its position in handle_hotkey
    h_mode,              \* per thread: handle_hotkey's argument
    selected_text,       \* per thread: handle_hotkey's local
    improved_text,       \* per thread: handle_hotkey's local
    events,              \* hotkey presses delivered by the OS, not yet handled by the listener
    clipboard,           \* the general pasteboard's string
    pasted,              \* the text the last paste keystroke put into the focused application
    how,                 \* per thread: the exit path its handler took, until it returns
    show_notifications,  \* ConfigManager.should_show_notifications()
    selection,           \* what was selected in the focused application when the request
                         \* in flight sent its copy keystroke, until the captured text is
                         \* used (None: nothing selected, or no capture pending)
    notes,               \* the notifications shown by the request in flight, in order
    th_call,             \* the last call of a TextHandler method made directly: the
                         \* method, its argument, what it met and what it returned
    cfg_file,            \* the configuration file: Missing, Unreadable, Malformed or
                         \* the document it parses to
    config,              \* ConfigManager.config
    load_ret,            \* how the last load() ended: "ok" or the exception raised
    mpc,                 \* main()'s position
    log_level, log_file, \* what logging.basicConfig was called with
    listener_running,    \* the pynput listener is started (HotkeyManager.is_running)
    is_running,          \* WritingAssistant.is_running
    exit_status,         \* <<>> while the process runs, then its exit status
    sig_at,              \* main()'s position when Ctrl-C arrived, "-" before
    hotkeys,             \* HotkeyManager.hotkeys: combination string -> entry
    hk_listener,         \* HotkeyManager.listener: "none" or the state of the object held
    hk_is_running,       \* HotkeyManager.is_running
    hk_active,           \* listener threads alive in the process
    hk_last,             \* the last HotkeyManager call and whether it raised
    hk_called            \* the mode the callback was called with in this step, "-" if none

cvars == <<now, request_times, cpc, c_text, c_mode, attempt, wait_time, result,
           outcomes, attempt_times, backoffs, rl_wait>>
cfgvars == <<requests_per_minute, max_retries, show_notifications>>
hvars == <<processing_lock, pc, h_mode, selected_text, improved_text, events,
           clipboard, pasted, how, selection, notes>>
mvars == <<mpc, log_level, log_file, listener_running, is_running, exit_status, sig_at>>
kvars == <<hotkeys, hk_listener, hk_is_running, hk_active, hk_last, hk_called>>
xvars == <<th_call, cfg_file, config, load_ret, mvars, kvars>>
vars == <<cfgvars, cvars, hvars, xvars>>

(* ---- documents: what yaml.safe_load returns, and Python dicts ---- *)
VStr(x) == [tag |-> "str", v |-> x]
VInt(k) == [tag |-> "int", v |-> k]
VBool(b) == [tag |-> "bool", v |-> b]
VNull == [tag |-> "null", v |-> 0]
VDict(f) == [tag |-> "dict", v |-> f]
Empty == [k \in {} |-> VNull]

\* A configuration file that does not exist, cannot be opened, is no YAML.
Missing == [tag |-> "missing", v |-> 0]
Unreadable == [tag |-> "unreadable", v |-> 0]
Malformed == [tag |-> "malformed", v |-> 0]

\* The dict with the given (key, value) pairs.
FromPairs(pairs) ==
    [k \in {p[1] : p \in pairs} |-> (CHOOSE p \in pairs : p[1] = k)[2]]

\* d.get(key, default) on a dict d
DictGet(d, key, default) == IF key \in DOMAIN d.v THEN d.v[key] ELSE default

\* Python truthiness of a document value
PyTruthy(x) ==
    CASE x.tag = "str" -> x.v # ""
      [] x.tag = "int" -> x.v # 0
      [] x.tag = "bool" -> x.v
      [] x.tag = "null" -> FALSE
      [] x.tag = "dict" -> DOMAIN x.v # {}

(* ---- strings ---- *)
IsSpace(c) == c = " "

RECURSIVE LStrip(_)
LStrip(s) == IF s # <<>> /\ IsSpace(Head(s)) THEN LStrip(Tail(s)) ELSE s

RECURSIVE RStrip(_)
RStrip(s) ==
    IF s # <<>> /\ IsSpace(s[Len(s)]) THEN RStrip(SubSeq(s, 1, Len(s) - 1)) ELSE s

\* str.strip()
Strip(s) == RStrip(LStrip(s))

\* Python truthiness of an Optional[str]
Truthy(s) == s # None /\ s # <<>>

(* ---- the rate limiter ---- *)
Prune_Nothing(times, t) == times

\* while self.request_times and now - self.request_times[0] > 60: popleft()
RECURSIVE Prune(_, _)
Prune(times, t) ==
    IF times # <<>> /\ t - Head(times) > WINDOW THEN Prune(Tail(times), t) ELSE times

\* deque(maxlen=requests_per_minute).append: a full deque drops its oldest entry
DequeAppend(times, t) ==
    IF Len(times) >= requests_per_minute
    THEN Append(Tail(times), t)
    ELSE Append(times, t)

\* len(self.request_times) >= self.requests_per_minute
AtLimit(times) == Len(times) >= requests_per_minute

WaitTime_FromNewest(times, t) == WINDOW - (t - times[Len(times)])

\* wait_time = 60 - (now - self.request_times[0])
WaitTime(times, t) == WINDOW - (t - Head(times))

(* ---- the retry loop ---- *)
Backoff_Linear(k) == BACKOFF_BASE * k

\* wait_time = 2 ** attempt
Backoff(k) == BACKOFF_BASE ^ k

RetryAfterError_Always(k) == k < max_retries

\* if attempt < self.max_retries - 1
RetryAfterError(k) == k < max_retries - 1

InRange_Inclusive(k) == k <= max_retries

\* for attempt in range(self.max_retries): whether index k is in the range
InRange(k) == k < max_retries

ValidInput_AnyMode(text, mode) == Truthy(text) /\ Strip(text) # <<>>

\* the guards at the head of improve_text
ValidInput(text, mode) ==
    /\ Truthy(text)
    /\ Strip(text) # <<>>
    /\ mode \in PROMPTS

(* ---- GeminiClient.improve_text, step by step ---- *)

\* The head of the retry loop with index k: another attempt, or the loop is
\* over and the function falls through to "return None".
LoopHead(k) ==
    IF InRange(k)
    THEN /\ cpc' = "attempt"
         /\ result' = result
    ELSE /\ cpc' = "ret"
         /\ result' = None

\* improve_text(text, mode) up to the first blocking point: the two guards,
\* then _check_rate_limit up to its sleep or, without one, through its append.
ImproveTextCall(text, mode) ==
    /\ cpc = "idle"
    /\ c_text' = text
    /\ c_mode' = mode
    /\ UNCHANGED <<outcomes, attempt_times, backoffs, rl_wait, attempt>>
    /\ IF ~ValidInput(text, mode)
       THEN /\ cpc' = "ret"
            /\ result' = None
            /\ UNCHANGED <<request_times, wait_time>>
       ELSE LET kept == Prune(request_times, now) IN
            IF AtLimit(kept) /\ WaitTime(kept, now) > 0
            THEN /\ cpc' = "rate_sleep"
                 /\ wait_time' = WaitTime(kept, now)
                 /\ request_times' = kept
                 /\ result' = result
            ELSE /\ request_times' = DequeAppend(kept, now)
                 /\ wait_time' = 0
                 /\ LoopHead(0)
    /\ UNCHANGED <<cfgvars, now>>

\* time.sleep(wait_time) in _check_rate_limit, then the append of a fresh
\* time.time()
RateLimitSleep ==
    /\ cpc = "rate_sleep"
    /\ now' = now + wait_time
    /\ rl_wait' = wait_time
    /\ wait_time' = 0
    /\ request_times' = DequeAppend(request_times, now')
    /\ LoopHead(0)
    /\ UNCHANGED <<cfgvars, c_text, c_mode, attempt, outcomes, attempt_times, backoffs>>

\* One generate_content request that raises.
AttemptRaises ==
    /\ cpc = "attempt"
    /\ attempt_times' = Append(attempt_times, now)
    /\ outcomes' = Append(outcomes, Err)
    /\ IF RetryAfterError(attempt)
       THEN /\ cpc' = "backoff"
            /\ wait_time' = Backoff(attempt)
            /\ UNCHANGED <<attempt, result>>
       ELSE /\ attempt' = attempt + 1
            /\ wait_time' = wait_time
            /\ LoopHead(attempt + 1)
    /\ UNCHANGED <<cfgvars, now, request_times, c_text, c_mode, backoffs, rl_wait>>

\* One generate_content request that returns a response whose text is resp.
AttemptReturns(resp) ==
    /\ cpc = "attempt"
    /\ attempt_times' = Append(attempt_times, now)
    /\ outcomes' = Append(outcomes, resp)
    /\ IF Truthy(resp)
       THEN /\ result' = Strip(resp)
            /\ cpc' = "ret"
            /\ UNCHANGED attempt
       ELSE /\ attempt' = attempt + 1
            /\ LoopHead(attempt + 1)
    /\ UNCHANGED <<cfgvars, now, request_times, c_text, c_mode, wait_time,
                   backoffs, rl_wait>>

\* time.sleep(wait_time) of the backoff, then the next iteration
BackoffSleep ==
    /\ cpc = "backoff"
    /\ now' = now + wait_time
    /\ backoffs' = Append(backoffs, wait_time)
    /\ wait_time' = 0
    /\ attempt' = attempt + 1
    /\ LoopHead(attempt + 1)
    /\ UNCHANGED <<cfgvars, request_times, c_text, c_mode, outcomes, attempt_times,
                   rl_wait>>

\* improve_text returns to its caller: its frame (arguments, loop index, return
\* value) is gone.
ImproveTextReturn ==
    /\ cpc = "ret"
    /\ cpc' = "idle"
    /\ c_text' = None
    /\ c_mode' = "grammar_fix"
    /\ attempt' = 0
    /\ result' = None
    /\ outcomes' = <<>>
    /\ attempt_times' = <<>>
    /\ backoffs' = <<>>
    /\ rl_wait' = 0
    /\ UNCHANGED <<cfgvars, now, request_times, wait_time>>

\* Time passes by d seconds between two calls of improve_text.
Tick(d) ==
    /\ cpc = "idle"
    /\ now + d <= MaxTime
    /\ now' = now + d
    /\ UNCHANGED <<cfgvars, request_times, cpc, c_text, c_mode, attempt, wait_time,
                   result, outcomes, attempt_times, backoffs, rl_wait>>

ClientStep ==
    \/ RateLimitSleep
    \/ AttemptRaises
    \/ \E resp \in Texts : AttemptReturns(resp)
    \/ BackoffSleep

(* ---- ConfigManager ---- *)
PLACEHOLDER == "YOUR_GEMINI_API_KEY_HERE"

DEFAULT_CONFIG ==
    VDict([gemini |-> VDict([api_key |-> VStr(""),
                             model |-> VStr("gemini-2.0-flash-exp"),
                             max_retries |-> VInt(3),
                             timeout |-> VInt(10)]),
           hotkeys |-> VDict([grammar_fix |-> VStr("cmd+shift+g"),
                              formal |-> VStr("cmd+shift+f"),
                              casual |-> VStr("cmd+shift+c"),
                              simplify |-> VStr("cmd+shift+s"),
                              expand |-> VStr("cmd+shift+e")]),
           rate_limit |-> VDict([requests_per_minute |-> VInt(50)]),
           ui |-> VDict([show_notifications |-> VBool(TRUE),
                         notification_duration |-> VInt(2)]),
           logging |-> VDict([level |-> VStr("INFO"),
                              file |-> VStr("writing_assistant.log")])])

MergeWithDefaults_Shallow(conf, defaults) ==
    [key \in DOMAIN defaults \cup DOMAIN conf |->
        IF key \in DOMAIN conf THEN conf[key] ELSE defaults[key]]

\* _merge_with_defaults(config, defaults) on the dicts' key-value maps:
\* result = defaults.copy(), then each key of config is merged in if both
\* values are dicts and assigned otherwise
RECURSIVE MergeWithDefaults(_, _)
MergeWithDefaults(conf, defaults) ==
    [key \in DOMAIN defaults \cup DOMAIN conf |->
        IF key \in DOMAIN conf
        THEN IF /\ key \in DOMAIN defaults
                /\ defaults[key].tag = "dict"
                /\ conf[key].tag = "dict"
             THEN VDict(MergeWithDefaults(conf[key].v, defaults[key].v))
             ELSE conf[key]
        ELSE defaults[key]]

RpmInvalid_Exclusive(rpm) == rpm <= 0 \/ rpm >= RPM_LIMIT

\* if rpm <= 0 or rpm > 60
RpmInvalid(rpm) == rpm <= 0 \/ rpm > RPM_LIMIT

\* _validate() on self.config = conf: "ok", or the type of the exception it
\* raises (its own ValueError, or the one a section that is no dict or a quota
\* that is no number runs into)
Validate(conf) ==
    LET gemini == DictGet(conf, "gemini", VDict(Empty)) IN
    IF gemini.tag # "dict" THEN "AttributeError" ELSE
    LET api_key == DictGet(gemini, "api_key", VStr("")) IN
    IF ~PyTruthy(api_key) \/ api_key = VStr(PLACEHOLDER) THEN "ValueError" ELSE
    LET rate_limit == DictGet(conf, "rate_limit", VDict(Empty)) IN
    IF rate_limit.tag # "dict" THEN "AttributeError" ELSE
    LET rpm == DictGet(rate_limit, "requests_per_minute", VInt(0)) IN
    IF rpm.tag # "int" THEN "TypeError" ELSE
    IF RpmInvalid(rpm.v) THEN "ValueError" ELSE "ok"

\* What the body of load()'s try block does with the file: "ok", or the type
\* of the exception raised inside it.
TryLoad(file) ==
    CASE file.tag = "unreadable" -> "OSError"
      [] file.tag = "malformed" -> "YAMLError"
      [] file.tag = "dict" -> Validate(VDict(MergeWithDefaults(file.v, DEFAULT_CONFIG.v)))
      [] OTHER -> "AttributeError"

\* self.config when load() is over
ConfigAfterLoad(file, conf) ==
    CASE file.tag \in {"missing", "unreadable", "malformed"} -> conf
      [] file.tag = "dict" -> VDict(MergeWithDefaults(file.v, DEFAULT_CONFIG.v))
      [] OTHER -> file

Caught_OnlyYaml(exc) == exc = "YAMLError"

\* except yaml.YAMLError / except Exception: the exception types the two
\* clauses catch
Caught(exc) == exc \in {"YAMLError", "OSError", "AttributeError", "TypeError", "ValueError"}

\* load(): "ok" when it returns self.config, else the type of the exception
\* that leaves it
LoadOutcome(file) ==
    IF file.tag = "missing" THEN "FileNotFoundError"
    ELSE LET exc == TryLoad(file) IN
         IF exc = "ok" THEN "ok"
         ELSE IF Caught(exc) THEN "ValueError" ELSE exc

\* self.config_manager.load()
Load ==
    /\ load_ret' = LoadOutcome(cfg_file)
    /\ config' = ConfigAfterLoad(cfg_file, config)
    /\ UNCHANGED cfg_file

\* get_log_level(), then getattr(logging, ..., logging.INFO)
GetLogLevel(conf) ==
    LET name == DictGet(DictGet(conf, "logging", VDict(Empty)), "level", VStr("INFO")).v
    IN IF name \in {"DEBUG", "INFO", "WARNING", "ERROR", "CRITICAL"} THEN name ELSE "INFO"

\* get_log_file()
GetLogFile(conf) ==
    DictGet(DictGet(conf, "logging", VDict(Empty)), "file", VStr("writing_assistant.log")).v

\* get_rate_limit()
GetRateLimit(conf) ==
    DictGet(DictGet(conf, "rate_limit", VDict(Empty)), "requests_per_minute", VInt(50)).v

\* should_show_notifications()
ShouldShowNotifications(conf) ==
    DictGet(DictGet(conf, "ui", VDict(Empty)), "show_notifications", VBool(TRUE)).v

(* ---- main() and WritingAssistant's start and stop ---- *)
\* sys.exit(status), or main() ending (status 0) or an exception leaving it (1)
Exit(status) ==
    /\ mpc' = "exited"
    /\ exit_status' = <<status>>

\* assistant.setup_logging(); file_ok: logging.FileHandler opened the log file
SetupLogging(file_ok) ==
    /\ mpc = "setup_logging"
    /\ log_level' = GetLogLevel(config)
    /\ log_file' = GetLogFile(config)
    /\ IF file_ok
       THEN mpc' = "initialize" /\ UNCHANGED exit_status
       ELSE Exit(1)
    /\ UNCHANGED <<cfgvars, cfg_file, config, load_ret, listener_running, is_running,
                   sig_at>>

\* if not assistant.initialize(): sys.exit(1).  components_ok: the constructors
\* of the client, the text handler and the hotkey manager and the registration
\* of the hotkeys raised nothing.
Initialize(components_ok) ==
    /\ mpc = "initialize"
    /\ Load
    /\ IF load_ret' = "ok" /\ components_ok
       THEN /\ mpc' = "start"
            /\ requests_per_minute' = GetRateLimit(config')
            /\ max_retries' = config'.v["gemini"].v["max_retries"].v
            /\ show_notifications' = ShouldShowNotifications(config')
            /\ UNCHANGED exit_status
       ELSE /\ Exit(1)
            /\ UNCHANGED cfgvars
    /\ UNCHANGED <<log_level, log_file, listener_running, is_running, sig_at>>

ListenerAfterStop_Skips(running, listening) == listening

\* WritingAssistant.stop(): the listener's state after it.  Nothing happens
\* unless is_running; else hotkey_manager.stop() stops the listener.
ListenerAfterStop(running, listening) == IF running THEN FALSE ELSE listening

\* assistant.start() up to hotkey_manager.start().  When that raises, start()'s
\* except clause calls stop() and re-raises, and main() exits with 1.
StartListener(ok) ==
    /\ mpc = "start"
    /\ IF ok
       THEN /\ listener_running' = TRUE
            /\ mpc' = "listening"
            /\ UNCHANGED exit_status
       ELSE /\ listener_running' = ListenerAfterStop(is_running, listener_running)
            /\ Exit(1)
    /\ UNCHANGED <<cfgvars, cfg_file, config, load_ret, log_level, log_file, is_running,
                   sig_at>>

\* self.is_running = True
MarkRunning ==
    /\ mpc = "listening"
    /\ is_running' = TRUE
    /\ mpc' = "announce"
    /\ UNCHANGED <<cfgvars, cfg_file, config, load_ret, log_level, log_file,
                   listener_running, exit_status, sig_at>>

\* The status printed, the startup notification, signal.signal(SIGINT, ...) and
\* signal.pause().  When one of them raises, start()'s except clause calls
\* stop() and re-raises, and main() exits with 1.
Announce(ok) ==
    /\ mpc = "announce"
    /\ IF ok
       THEN /\ mpc' = "paused"
            /\ UNCHANGED <<listener_running, is_running, exit_status>>
       ELSE /\ listener_running' = ListenerAfterStop(is_running, listener_running)
            /\ is_running' = FALSE
            /\ Exit(1)
    /\ UNCHANGED <<cfgvars, cfg_file, config, load_ret, log_level, log_file, sig_at>>

\* Ctrl-C inside start() before the handler is installed: KeyboardInterrupt
\* passes start()'s "except Exception"; main() catches it, calls stop() and ends.
KeyboardInterrupt ==
    /\ mpc \in {"listening", "announce"}
    /\ sig_at' = mpc
    /\ listener_running' = ListenerAfterStop(is_running, listener_running)
    /\ is_running' = FALSE
    /\ Exit(0)
    /\ UNCHANGED <<cfgvars, cfg_file, config, load_ret, log_level, log_file>>

\* Ctrl-C in signal.pause(): _signal_handler calls stop() and sys.exit(0).
SignalHandler ==
    /\ mpc = "paused"
    /\ sig_at' = mpc
    /\ listener_running' = ListenerAfterStop(is_running, listener_running)
    /\ is_running' = FALSE
    /\ Exit(0)
    /\ UNCHANGED <<cfgvars, cfg_file, config, load_ret, log_level, log_file>>

(* ---- TextHandler ---- *)
\* What the copy keystroke leaves on the pasteboard: the selection when the
\* script ran and text is selected, else what was there.
AfterCopy(clip, sel, script_ok) == IF script_ok /\ sel # None THEN sel ELSE clip

\* "Restore old clipboard": if old_clipboard: clearContents(); setString_(old)
Restore(old, current) == IF Truthy(old) THEN old ELSE current

\* get_selected_text's return value for pasteboard content new_clipboard
Captured(new_clipboard) ==
    IF Truthy(new_clipboard) /\ Strip(new_clipboard) # <<>> THEN new_clipboard ELSE None

\* replace_selected_text(new_text): its return value.  pb_ok: the pasteboard
\* calls went through (else the except clause returns False).  The result of
\* the paste script is not looked at: _execute_applescript logs a failure and
\* returns None, and its return value is dropped.
ReplaceReturns(new_text, pb_ok) == Truthy(new_text) /\ pb_ok

\* ... the pasteboard it leaves: new_text was put there, then "if old_clipboard:"
\* puts the old content back
ClipboardAfterReplace(old_clipboard, new_text, pb_ok) ==
    IF Truthy(new_text) /\ pb_ok THEN Restore(old_clipboard, new_text) ELSE old_clipboard

\* ... and what the paste keystroke, when osascript ran it, put into the
\* focused application
PastedAfterReplace(was, new_text, script_ok, pb_ok) ==
    IF Truthy(new_text) /\ pb_ok /\ script_ok THEN new_text ELSE was

(* ---- WritingAssistant.handle_hotkey, per calling thread ---- *)
\* The notification each exit path of handle_hotkey ends with.
FinalMessage_Generic(path) == "An error occurred"

FinalMessage(path) ==
    CASE path = "no_selection" -> "No text selected"
      [] path = "improved" -> "Text improved"
      [] path = "replace_failed" -> "Failed to replace text"
      [] path = "improve_failed" -> "Failed to improve text"
      [] path = "error" -> "An error occurred"

\* if self.config_manager.should_show_notifications(): show_notification(msg)
Notify(shown, msg) == IF show_notifications THEN Append(shown, msg) ELSE shown

\* The pynput listener thread, which runs _on_press and with it the callback,
\* and a second thread calling the handler at the same time.
Listener == "listener"
Threads == {Listener, "caller"}

\* Positions between the lock's acquisition and its release.
InFlight == {"capture", "improve", "improving", "replace", "finally"}

\* The exit paths of handle_hotkey.
ExitPaths == {"no_selection", "improved", "replace_failed", "improve_failed", "error"}

Acquired_Always(held) == TRUE

\* self.processing_lock.acquire(blocking=False) on a lock in state held
Acquired(held) == ~held

Released_StillHeld == TRUE

\* self.processing_lock.release()
Released == FALSE

\* handle_hotkey returns on thread t: its frame is gone.
Return(t) ==
    /\ pc' = [pc EXCEPT ![t] = "idle"]
    /\ h_mode' = [h_mode EXCEPT ![t] = "-"]
    /\ selected_text' = [selected_text EXCEPT ![t] = None]
    /\ improved_text' = [improved_text EXCEPT ![t] = None]
    /\ how' = [how EXCEPT ![t] = "-"]

\* The OS delivers a press of the hotkey bound to mode.
KeyPress(mode) ==
    /\ Len(events) < MaxEvents
    /\ now <= MaxTime
    /\ events' = Append(events, mode)
    /\ UNCHANGED <<cfgvars, cvars, processing_lock, pc, h_mode, selected_text,
                   improved_text, clipboard, pasted, how, selection, notes>>

\* HotkeyManager._on_press on the listener thread: the matching HotKey calls
\* callback(mode), i.e. handle_hotkey(mode), and returns when it returns.
OnPress ==
    /\ pc[Listener] = "idle"
    /\ events # <<>>
    /\ pc' = [pc EXCEPT ![Listener] = "entry"]
    /\ h_mode' = [h_mode EXCEPT ![Listener] = Head(events)]
    /\ events' = Tail(events)
    /\ UNCHANGED <<cfgvars, cvars, processing_lock, selected_text, improved_text,
                   clipboard, pasted, how, selection, notes>>

\* handle_hotkey(mode) called on another thread.
DirectCall(t, mode) ==
    /\ t # Listener
    /\ pc[t] = "idle"
    /\ now <= MaxTime
    /\ pc' = [pc EXCEPT ![t] = "entry"]
    /\ h_mode' = [h_mode EXCEPT ![t] = mode]
    /\ UNCHANGED <<cfgvars, cvars, processing_lock, selected_text, improved_text,
                   events, clipboard, pasted, how, selection, notes>>

\* if not self.processing_lock.acquire(blocking=False): log the warning;
\* else the "Processing (mode)..." notification
TryAcquire(t) ==
    /\ pc[t] = "entry"
    /\ IF Acquired(processing_lock)
       THEN /\ processing_lock' = TRUE
            /\ pc' = [pc EXCEPT ![t] = "capture"]
            /\ notes' = Notify(notes, "Processing")
       ELSE /\ pc' = [pc EXCEPT ![t] = "ignored"]
            /\ UNCHANGED <<processing_lock, notes>>
    /\ UNCHANGED <<cfgvars, cvars, h_mode, selected_text, improved_text, events,
                   clipboard, pasted, how, selection>>

Ignore_Requeues(t) ==
    /\ pc[t] = "ignored"
    /\ Return(t)
    /\ events' = Append(events, h_mode[t])
    /\ UNCHANGED <<cfgvars, cvars, processing_lock, clipboard, pasted, selection, notes>>

\* ... and return, the trigger ignored
Ignore(t) ==
    /\ pc[t] = "ignored"
    /\ Return(t)
    /\ UNCHANGED <<cfgvars, cvars, processing_lock, events, clipboard, pasted,
                   selection, notes>>

\* selected_text = self.text_handler.get_selected_text() and the test on it.
\* sel is the text selected in the focused application (None: nothing),
\* script_ok whether osascript ran the copy keystroke, pb_ok whether the
\* pasteboard calls went through (else get_selected_text's except returns None).
Capture(t, sel, script_ok, pb_ok) ==
    /\ pc[t] = "capture"
    /\ LET new_clipboard == AfterCopy(clipboard, sel, script_ok)
           got == IF pb_ok THEN Captured(new_clipboard) ELSE None
       IN /\ clipboard' = IF pb_ok THEN Restore(clipboard, new_clipboard) ELSE clipboard
          /\ selected_text' = [selected_text EXCEPT ![t] = got]
          /\ pc' = [pc EXCEPT ![t] = IF Truthy(got) THEN "improve" ELSE "finally"]
          /\ how' = [how EXCEPT ![t] = IF Truthy(got) THEN "-" ELSE "no_selection"]
          /\ notes' = IF Truthy(got) THEN notes
                       ELSE Notify(notes, FinalMessage("no_selection"))
    /\ selection' = sel
    /\ UNCHANGED <<cfgvars, cvars, processing_lock, h_mode, improved_text, events, pasted>>

\* improved_text = self.gemini_client.improve_text(selected_text, mode): the call
CallImprove(t) ==
    /\ pc[t] = "improve"
    /\ ImproveTextCall(selected_text[t], h_mode[t])
    /\ pc' = [pc EXCEPT ![t] = "improving"]
    /\ selection' = None
    /\ UNCHANGED <<processing_lock, h_mode, selected_text, improved_text, events,
                   clipboard, pasted, how, notes>>

\* improve_text has returned: if improved_text: ... else: "Failed to improve text"
ImproveDone(t) ==
    /\ pc[t] = "improving"
    /\ ImproveTextReturn
    /\ improved_text' = [improved_text EXCEPT ![t] = result]
    /\ pc' = [pc EXCEPT ![t] = IF Truthy(result) THEN "replace" ELSE "finally"]
    /\ how' = [how EXCEPT ![t] = IF Truthy(result) THEN "-" ELSE "improve_failed"]
    /\ notes' = IF Truthy(result) THEN notes
                 ELSE Notify(notes, FinalMessage("improve_failed"))
    /\ UNCHANGED <<processing_lock, h_mode, selected_text, events, clipboard, pasted,
                   selection>>

\* success = self.text_handler.replace_selected_text(improved_text) and the
\* branch on it.  script_ok: osascript ran the paste keystroke; pb_ok: the
\* pasteboard calls went through (else replace_selected_text's except returns
\* False).
Replace(t, script_ok, pb_ok) ==
    /\ pc[t] = "replace"
    /\ pasted' = PastedAfterReplace(pasted, improved_text[t], script_ok, pb_ok)
    /\ clipboard' = ClipboardAfterReplace(clipboard, improved_text[t], pb_ok)
    /\ how' = [how EXCEPT ![t] = IF ReplaceReturns(improved_text[t], pb_ok)
                                  THEN "improved" ELSE "replace_failed"]
    /\ pc' = [pc EXCEPT ![t] = "finally"]
    /\ notes' = Notify(notes, FinalMessage(how'[t]))
    /\ UNCHANGED <<cfgvars, cvars, processing_lock, h_mode, selected_text,
                   improved_text, events, selection>>

\* An exception escaping a statement of the try block: the except clause.
Raise(t) ==
    /\ pc[t] \in {"capture", "improve", "replace"}
    /\ pc' = [pc EXCEPT ![t] = "finally"]
    /\ how' = [how EXCEPT ![t] = "error"]
    /\ notes' = Notify(notes, FinalMessage("error"))
    /\ UNCHANGED <<cfgvars, cvars, processing_lock, h_mode, selected_text,
                   improved_text, events, clipboard, pasted, selection>>

\* finally: self.processing_lock.release(), and the handler returns: the
\* request is over
Release(t) ==
    /\ pc[t] = "finally"
    /\ processing_lock' = Released
    /\ Return(t)
    /\ selection' = None
    /\ notes' = <<>>
    /\ UNCHANGED <<cfgvars, cvars, events, clipboard, pasted>>

HandlerStep(t) ==
    \/ TryAcquire(t)
    \/ Ignore(t)
    \/ \E sel \in Clipboards, script_ok \in BOOLEAN, pb_ok \in BOOLEAN :
          Capture(t, sel, script_ok, pb_ok)
    \/ CallImprove(t)
    \/ ImproveDone(t)
    \/ \E script_ok \in BOOLEAN, pb_ok \in BOOLEAN : Replace(t, script_ok, pb_ok)
    \/ Release(t)

(* ---- TextHandler's methods called directly ---- *)
NoCall == [op |-> "-", arg |-> None, before |-> None, script |-> "-", ret |-> None]

ScriptResult(script_ok) == IF script_ok THEN "ok" ELSE "failed"

\* get_selected_text() with sel selected in the focused application
GetSelectedText(sel, script_ok, pb_ok) ==
    /\ LET new_clipboard == AfterCopy(clipboard, sel, script_ok) IN
       /\ clipboard' = IF pb_ok THEN Restore(clipboard, new_clipboard) ELSE clipboard
       /\ th_call' = [op |-> "get_selected_text", arg |-> sel, before |-> clipboard,
                      script |-> IF pb_ok THEN ScriptResult(script_ok) ELSE "-",
                      ret |-> IF pb_ok THEN Captured(new_clipboard) ELSE None]
    /\ UNCHANGED <<cfgvars, cvars, processing_lock, pc, h_mode, selected_text,
                   improved_text, events, pasted, how, selection, notes>>
    /\ UNCHANGED <<cfg_file, config, load_ret, mvars, kvars>>

\* replace_selected_text(new_text)
ReplaceSelectedText(new_text, script_ok, pb_ok) ==
    /\ clipboard' = ClipboardAfterReplace(clipboard, new_text, pb_ok)
    /\ pasted' = PastedAfterReplace(pasted, new_text, script_ok, pb_ok)
    /\ th_call' = [op |-> "replace_selected_text", arg |-> new_text, before |-> clipboard,
                   script |-> IF Truthy(new_text) /\ pb_ok THEN ScriptResult(script_ok)
                              ELSE "-",
                   ret |-> ReplaceReturns(new_text, pb_ok)]
    /\ UNCHANGED <<cfgvars, cvars, processing_lock, pc, h_mode, selected_text,
                   improved_text, events, how, selection, notes>>
    /\ UNCHANGED <<cfg_file, config, load_ret, mvars, kvars>>

(* ---- the client alone: improve_text called directly ---- *)
ClientInit(retries) ==
    /\ requests_per_minute \in 1..MaxQuota
    /\ max_retries \in 0..retries
    /\ now = 0
    /\ request_times = <<>>
    /\ cpc = "idle"
    /\ c_text = None
    /\ c_mode = "grammar_fix"
    /\ attempt = 0
    /\ wait_time = 0
    /\ result = None
    /\ outcomes = <<>>
    /\ backoffs = <<>>
    /\ attempt_times = <<>>
    /\ rl_wait = 0

HandlerInit ==
    /\ processing_lock = FALSE
    /\ pc = [t \in Threads |-> "idle"]
    /\ h_mode = [t \in Threads |-> "-"]
    /\ selected_text = [t \in Threads |-> None]
    /\ improved_text = [t \in Threads |-> None]
    /\ events = <<>>
    /\ clipboard \in Clipboards
    /\ pasted = None
    /\ how = [t \in Threads |-> "-"]
    /\ show_notifications \in BOOLEAN
    /\ selection = None
    /\ notes = <<>>

\* The documents drawn for the configuration file: each section absent, null
\* or a mapping with some of its keys.
ApiKeys == {"", PLACEHOLDER, "k"}
RpmValues == {VInt(-1), VInt(0), VInt(1), VInt(30), VInt(60), VInt(61), VNull}

GeminiOpts ==
    {{}, {<<"gemini", VNull>>}}
    \cup {{<<"gemini", VDict(FromPairs(a \cup m))>>} :
             a \in {{}} \cup {{<<"api_key", VStr(k)>>} : k \in ApiKeys},
             m \in {{}, {<<"model", VStr("m")>>}}}

RateLimitOpts ==
    {{}, {<<"rate_limit", VNull>>}, {<<"rate_limit", VDict(Empty)>>}}
    \cup {{<<"rate_limit", VDict(FromPairs({<<"requests_per_minute", r>>}))>>} :
             r \in RpmValues}

LoggingOpts ==
    {{<<"logging", VDict(FromPairs(l \cup f))>>} :
        l \in {{}, {<<"level", VStr("DEBUG")>>}},
        f \in {{}, {<<"file", VStr("f.log")>>}}}
    \cup {{}}

ExtraOpts == {{}, {<<"extra", VInt(1)>>}}

Documents ==
    {VDict(FromPairs(g \cup r \cup l \cup x)) :
        g \in GeminiOpts, r \in RateLimitOpts, l \in LoggingOpts, x \in ExtraOpts}

Files == {Missing, Unreadable, Malformed, VNull, VStr("text")} \cup Documents

(* ---- HotkeyManager ---- *)
\* the names KEY_MAPPING maps to modifier keys
KEY_MAPPING == {"cmd", "ctrl", "alt", "option", "shift"}

\* A hotkey string, as its '+'-separated lower-case parts; a configuration value
\* that is no string (a null, a number) has no parts.
HotkeyStr(parts) == [is_str |-> TRUE, parts |-> parts]
NotAString == [is_str |-> FALSE, parts |-> <<>>]

\* "cmd+g", "option+f", "g", "cmd+option", "cmd+shift+g"
HotkeyStrs ==
    {HotkeyStr(<<"cmd", "g">>), HotkeyStr(<<"option", "f">>), HotkeyStr(<<"g">>),
     HotkeyStr(<<"cmd", "option">>), HotkeyStr(<<"cmd", "shift", "g">>)}
HotkeyInputs == HotkeyStrs \cup {NotAString}
ModeTags == {"grammar_fix", "formal"}

\* the loop over the parts leaves key other than None
HasKey(s) == \E i \in DOMAIN s.parts : s.parts[i] \notin KEY_MAPPING

\* hotkey_str.replace('cmd', '<cmd>').replace('option', '<alt>'), seen part by part
Rewritten(part) ==
    CASE part = "cmd" -> "<cmd>"
      [] part = "option" -> "<alt>"
      [] OTHER -> part

\* HotKey.parse takes a part that is one character or a key name in angle brackets
\* and raises ValueError on any other part and on a repeated key.
KeyChars == {"g", "f"}
KeyNames == {"<cmd>", "<alt>", "<ctrl>", "<shift>"}
ParseOk(s) ==
    /\ \A i \in DOMAIN s.parts : Rewritten(s.parts[i]) \in KeyChars \cup KeyNames
    /\ \A i, j \in DOMAIN s.parts :
          i # j => Rewritten(s.parts[i]) # Rewritten(s.parts[j])

\* register_hotkey reaches the assignment to self.hotkeys
Registrable_KeyOptional(s) == s.is_str /\ ParseOk(s)
Registrable(s) == s.is_str /\ HasKey(s) /\ ParseOk(s)

\* the entry stored: 'mode', and the mode the HotKey's lambda passes on (m=mode)
Entry(mode) == [mode |-> mode, bound |-> mode]
NoHotkeys == [x \in {} |-> Entry("-")]

\* self.hotkeys after register_hotkey(hotkey_str, callback, mode)
AfterRegister(reg, s, mode) ==
    IF Registrable(s)
    THEN [x \in DOMAIN reg \cup {s} |-> IF x = s THEN Entry(mode) ELSE reg[x]]
    ELSE reg

\* one item of hotkey_config.items()
Item(mode, s) == [mode |-> mode, hotkey_str |-> s]

\* self.hotkeys after the loop of register_multiple_hotkeys over items
RECURSIVE AfterRegisterMultiple(_, _)
AfterRegisterMultiple(reg, items) ==
    IF items = <<>> THEN reg
    ELSE AfterRegisterMultiple(
            AfterRegister(reg, Head(items).hotkey_str, Head(items).mode), Tail(items))

\* hotkey_config.items() of a dict over the mode tags, in insertion order
HotkeyConfigs ==
    {<<>>}
    \cup {<<Item(m, s)>> : m \in ModeTags, s \in HotkeyInputs}
    \cup {<<Item(m[1], s1), Item(m[2], s2)>> :
             m \in {<<"grammar_fix", "formal">>, <<"formal", "grammar_fix">>},
             s1 \in HotkeyInputs, s2 \in HotkeyInputs}

HkCall(op, items, raised) == [op |-> op, items |-> items, raised |-> raised]
NoHkCall == HkCall("-", <<>>, FALSE)

\* HotkeyManager.__init__
HotkeyInit ==
    /\ hotkeys = NoHotkeys
    /\ hk_listener = "none"
    /\ hk_is_running = FALSE
    /\ hk_active = 0
    /\ hk_last = NoHkCall
    /\ hk_called = "-"

\* register_hotkey(hotkey_str, callback, mode): every exception is caught and logged
RegisterHotkey(s, mode) ==
    /\ hotkeys' = AfterRegister(hotkeys, s, mode)
    /\ hk_last' = HkCall("register_hotkey", <<Item(mode, s)>>, FALSE)
    /\ hk_called' = "-"
    /\ UNCHANGED <<hk_listener, hk_is_running, hk_active>>

\* register_multiple_hotkeys(hotkey_config, callback)
RegisterMultipleHotkeys(items) ==
    /\ hotkeys' = AfterRegisterMultiple(hotkeys, items)
    /\ hk_last' = HkCall("register_multiple_hotkeys", items, FALSE)
    /\ hk_called' = "-"
    /\ UNCHANGED <<hk_listener, hk_is_running, hk_active>>

\* start(): ctor_ok, start_ok say whether keyboard.Listener(...) and
\* listener.start() return; either exception is logged and raised again.
HkStart(ctor_ok, start_ok) ==
    /\ IF hk_is_running THEN
          /\ hk_last' = HkCall("start", <<>>, FALSE)
          /\ UNCHANGED <<hk_listener, hk_is_running, hk_active>>
       ELSE IF ~ctor_ok THEN
          /\ hk_last' = HkCall("start", <<>>, TRUE)
          /\ UNCHANGED <<hk_listener, hk_is_running, hk_active>>
       ELSE IF ~start_ok THEN
          /\ hk_listener' = "new"
          /\ hk_last' = HkCall("start", <<>>, TRUE)
          /\ UNCHANGED <<hk_is_running, hk_active>>
       ELSE
          /\ hk_listener' = "running"
          /\ hk_active' = hk_active + 1
          /\ hk_is_running' = TRUE
          /\ hk_last' = HkCall("start", <<>>, FALSE)
    /\ hk_called' = "-"
    /\ UNCHANGED hotkeys

\* stop(): stop_ok says whether listener.stop() returns; when it raises, ended
\* says whether the listener's thread ended all the same.  The exception is logged.
HkStop(stop_ok, ended) ==
    /\ IF ~hk_is_running THEN
          UNCHANGED <<hk_listener, hk_is_running, hk_active>>
       ELSE IF hk_listener = "none" THEN
          /\ hk_is_running' = FALSE
          /\ UNCHANGED <<hk_listener, hk_active>>
       ELSE IF stop_ok THEN
          /\ hk_listener' = "none"
          /\ hk_active' = IF hk_listener = "running" THEN hk_active - 1 ELSE hk_active
          /\ hk_is_running' = FALSE
       ELSE
          /\ hk_listener' = IF ended THEN "stopped" ELSE hk_listener
          /\ hk_active' = IF ended /\ hk_listener = "running"
                          THEN hk_active - 1 ELSE hk_active
          /\ UNCHANGED hk_is_running
    /\ hk_last' = HkCall("stop", <<>>, FALSE)
    /\ hk_called' = "-"
    /\ UNCHANGED hotkeys

\* The running listener sees the keys of the registered combination s pressed:
\* the entry's HotKey calls its lambda.
HotkeyActivated(s) ==
    /\ hk_listener = "running"
    /\ s \in DOMAIN hotkeys
    /\ hk_called' = hotkeys[s].bound
    /\ hk_last' = HkCall("press", <<Item("-", s)>>, FALSE)
    /\ UNCHANGED <<hotkeys, hk_listener, hk_is_running, hk_active>>

\* ConfigManager.__init__: self.config = {}
ConfigInit == config = VDict(Empty) /\ load_ret = "-"

\* WritingAssistant.__init__, before main() has run anything
MainInit ==
    /\ mpc = "setup_logging"
    /\ log_level = "-"
    /\ log_file = "-"
    /\ listener_running = FALSE
    /\ is_running = FALSE
    /\ exit_status = <<>>
    /\ sig_at = "-"

DirectInit ==
    th_call = NoCall /\ cfg_file = Missing /\ ConfigInit /\ MainInit /\ HotkeyInit

InitText == ClientInit(0) /\ HandlerInit /\ DirectInit /\ requests_per_minute = 1

(* ---- ConfigManager.load() called directly ---- *)
InitConfig ==
    /\ ClientInit(0) /\ HandlerInit /\ requests_per_minute = 1
    /\ clipboard = None /\ show_notifications
    /\ th_call = NoCall
    /\ cfg_file \in Files
    /\ ConfigInit
    /\ MainInit
    /\ HotkeyInit

ConfigNext == Load /\ UNCHANGED <<cfgvars, cvars, hvars, th_call, mvars, kvars>>

SpecConfig == InitConfig /\ [][ConfigNext]_vars

(* ---- the process: main() from its first statement to its exit ---- *)
MainNext ==
    \/ \E file_ok \in BOOLEAN : SetupLogging(file_ok) /\ UNCHANGED <<cvars, hvars, th_call, kvars>>
    \/ \E components_ok \in BOOLEAN :
          Initialize(components_ok) /\ UNCHANGED <<cvars, hvars, th_call, kvars>>
    \/ \E ok \in BOOLEAN : StartListener(ok) /\ UNCHANGED <<cvars, hvars, th_call, kvars>>
    \/ MarkRunning /\ UNCHANGED <<cvars, hvars, th_call, kvars>>
    \/ \E ok \in BOOLEAN : Announce(ok) /\ UNCHANGED <<cvars, hvars, th_call, kvars>>
    \/ KeyboardInterrupt /\ UNCHANGED <<cvars, hvars, th_call, kvars>>
    \/ SignalHandler /\ UNCHANGED <<cvars, hvars, th_call, kvars>>

SpecMain == InitConfig /\ [][MainNext]_vars

TextNext ==
    \/ \E sel \in Clipboards, script_ok \in BOOLEAN, pb_ok \in BOOLEAN :
          GetSelectedText(sel, script_ok, pb_ok)
    \/ \E new_text \in Texts, script_ok \in BOOLEAN, pb_ok \in BOOLEAN :
          ReplaceSelectedText(new_text, script_ok, pb_ok)

SpecText == InitText /\ [][TextNext]_vars

(* ---- a HotkeyManager used directly ---- *)
InitHotkey ==
    /\ ClientInit(0) /\ HandlerInit /\ DirectInit
    /\ requests_per_minute = 1 /\ clipboard = None /\ show_notifications

HotkeyNext ==
    \/ \E s \in HotkeyInputs, mode \in ModeTags :
          RegisterHotkey(s, mode)
          /\ UNCHANGED <<cfgvars, cvars, hvars, th_call, cfg_file, config, load_ret, mvars>>
    \/ \E items \in HotkeyConfigs :
          RegisterMultipleHotkeys(items)
          /\ UNCHANGED <<cfgvars, cvars, hvars, th_call, cfg_file, config, load_ret, mvars>>
    \/ \E ctor_ok \in BOOLEAN, start_ok \in BOOLEAN :
          HkStart(ctor_ok, start_ok)
          /\ UNCHANGED <<cfgvars, cvars, hvars, th_call, cfg_file, config, load_ret, mvars>>
    \/ \E stop_ok \in BOOLEAN, ended \in BOOLEAN :
          HkStop(stop_ok, ended)
          /\ UNCHANGED <<cfgvars, cvars, hvars, th_call, cfg_file, config, load_ret, mvars>>
    \/ \E s \in HotkeyStrs :
          HotkeyActivated(s)
          /\ UNCHANGED <<cfgvars, cvars, hvars, th_call, cfg_file, config, load_ret, mvars>>

SpecHotkey == InitHotkey /\ [][HotkeyNext]_vars

\* The application as configured by default: notifications on.
Init == ClientInit(MaxAppRetries) /\ HandlerInit /\ DirectInit /\ show_notifications

\* The application with notifications on or off, under the tightest quota.
InitFlow ==
    /\ ClientInit(MaxAppRetries) /\ HandlerInit /\ DirectInit
    /\ requests_per_minute = 1

\* The client called directly: the handler's state stays as constructed.
InitClient ==
    /\ ClientInit(MaxRetriesCfg)
    /\ HandlerInit
    /\ DirectInit
    /\ clipboard = None
    /\ show_notifications

ClientNext ==
    \/ \E text \in Texts \cup {None}, mode \in ModeInputs :
          now <= MaxTime /\ ImproveTextCall(text, mode) /\ UNCHANGED <<hvars, xvars>>
    \/ ClientStep /\ UNCHANGED <<hvars, xvars>>
    \/ ImproveTextReturn /\ UNCHANGED <<hvars, xvars>>
    \/ \E d \in TickSteps : Tick(d) /\ UNCHANGED <<hvars, xvars>>

SpecClient == InitClient /\ [][ClientNext]_vars

(* ---- the application: hotkeys, handler threads, client ---- *)
Next ==
    \/ \E mode \in HotkeyModes : KeyPress(mode) /\ UNCHANGED xvars
    \/ OnPress /\ UNCHANGED xvars
    \/ \E t \in Threads, mode \in HotkeyModes : DirectCall(t, mode) /\ UNCHANGED xvars
    \/ \E t \in Threads : HandlerStep(t) /\ UNCHANGED xvars
    \/ \E t \in Threads : Raise(t) /\ UNCHANGED xvars
    \/ ClientStep /\ UNCHANGED <<hvars, xvars>>
    \/ \E d \in IdleSteps : Tick(d) /\ UNCHANGED <<hvars, xvars>>

Spec == Init /\ [][Next]_vars

SpecFlow == InitFlow /\ [][Next]_vars

\* Threads are scheduled, sleeps end and every provider request returns or raises.
FairSpec ==
    /\ Spec
    /\ \A t \in Threads : WF_vars(HandlerStep(t) /\ UNCHANGED xvars)
    /\ WF_vars(ClientStep /\ UNCHANGED <<hvars, xvars>>)

TypeOK ==
    /\ requests_per_minute \in 1..MaxQuota
    /\ max_retries \in 0..MaxRetriesCfg
    /\ now \in Nat
    /\ cpc \in {"idle", "rate_sleep", "attempt", "backoff", "ret"}
    /\ Len(request_times) <= requests_per_minute
    /\ pc \in [Threads -> {"idle", "entry", "ignored"} \cup InFlight]
    /\ how \in [Threads -> ExitPaths \cup {"-"}]
    /\ processing_lock \in BOOLEAN

(* ======================= claims about the client ======================= *)

\* Text that is empty or whitespace-only (or no string at all).
Blank(text) == text = None \/ \A i \in 1..Len(text) : text[i] = " "

ModeNames == {"grammar_fix", "formal", "casual", "simplify", "expand"}

RECURSIVE SumSeq(_)
SumSeq(s) == IF s = <<>> THEN 0 ELSE Head(s) + SumSeq(Tail(s))

\* C1: the number of requests issued to the provider (retries included) in any
\* trailing 60-second window never exceeds requests_per_minute; here counted
\* over the requests of the call in progress alone.
C1_QuotaPerWindow ==
    Cardinality({i \in 1..Len(attempt_times) : now - attempt_times[i] < 60})
        <= requests_per_minute

\* C6: a call that finds the record holding requests_per_minute entries, all of
\* the last 60 seconds, sleeps exactly 60 - (now - oldest) seconds before it
\* records its own timestamp and before any request goes out; a call that finds
\* fewer such entries does not sleep at all.
C6_Entering == cpc = "idle" /\ cpc' # "idle" /\ ~Blank(c_text') /\ c_mode' \in ModeNames

C6_Full ==
    /\ Len(request_times) = requests_per_minute
    /\ \A i \in 1..Len(request_times) : now - request_times[i] <= 60

C6_Delay == 60 - (now - request_times[1])

C6_ExactWait ==
    [][ /\ (C6_Entering /\ C6_Full /\ C6_Delay > 0)
           => /\ cpc' = "rate_sleep"
              /\ wait_time' = C6_Delay
              /\ request_times' = request_times
              /\ attempt_times' = <<>>
        /\ (C6_Entering /\ C6_Full /\ C6_Delay = 0)
           => /\ cpc' # "rate_sleep"
              /\ now' = now
        /\ (C6_Entering /\ ~C6_Full)
           => /\ cpc' # "rate_sleep"
              /\ now' = now
              /\ request_times'[Len(request_times')] = now
        /\ (cpc = "rate_sleep" /\ cpc' # "rate_sleep")
           => /\ now' = now + wait_time
              /\ rl_wait' = wait_time
              /\ request_times'[Len(request_times')] = now'
              /\ outcomes' = <<>>
      ]_vars

C6_Witness ==
    /\ cpc = "attempt"
    /\ rl_wait = 30
    /\ request_times = <<0, 60>>
    /\ now = 60

\* C7: blank text or an unknown mode fails at once: no request, no sleep, the
\* timestamp record untouched.
C7_RejectsWithoutSideEffect ==
    [][ (cpc = "idle" /\ cpc' # "idle" /\ (Blank(c_text') \/ c_mode' \notin ModeNames))
        => /\ cpc' = "ret"
           /\ result' = None
           /\ now' = now
           /\ request_times' = request_times
           /\ attempt_times' = <<>>
           /\ outcomes' = <<>>
           /\ backoffs' = <<>>
           /\ rl_wait' = 0 ]_vars

C7_Witness ==
    /\ cpc = "ret"
    /\ c_text = <<"a">>
    /\ c_mode \notin ModeNames
    /\ request_times # <<>>
    /\ result = None

\* C8: when every attempt raises, the call makes exactly max_retries attempts
\* and returns None.
C8_ExhaustsRetries ==
    (/\ cpc = "ret"
     /\ ~Blank(c_text) /\ c_mode \in ModeNames
     /\ \A i \in 1..Len(outcomes) : outcomes[i] = Err)
    => (Len(outcomes) = max_retries /\ result = None)

C8_Witness ==
    /\ cpc = "ret"
    /\ max_retries = 3
    /\ outcomes = <<Err, Err, Err>>
    /\ result = None

\* C9: N errors (N < max_retries) and then a response with text: the call
\* returns that text (stripped), having slept 2^k before attempt k+1, in total
\* 2^0 + ... + 2^(N-1) seconds.
C9_BackoffSum ==
    (/\ cpc = "ret"
     /\ outcomes # <<>>
     /\ \A i \in 1..(Len(outcomes) - 1) : outcomes[i] = Err
     /\ outcomes[Len(outcomes)] # Err
     /\ outcomes[Len(outcomes)] # <<>>)
    => LET n == Len(outcomes) - 1 IN
       /\ n < max_retries
       /\ result = Strip(outcomes[Len(outcomes)])
       /\ Len(backoffs) = n
       /\ \A k \in 0..(n - 1) : backoffs[k + 1] = 2 ^ k
       /\ SumSeq(backoffs) = 2 ^ n - 1

C9_Witness ==
    /\ cpc = "ret"
    /\ outcomes = <<Err, Err, <<"a">> >>
    /\ backoffs = <<1, 2>>
    /\ result = <<"a">>

\* C10: after an empty response on attempt k (k < max_retries - 1) the client
\* sleeps 2^k seconds before the next attempt, as it does after an error.
C10_EmptyBacksOff ==
    [][ (/\ cpc = "attempt"
         /\ Len(outcomes') = Len(outcomes) + 1
         /\ outcomes'[Len(outcomes')] = <<>>
         /\ attempt < max_retries - 1)
        => (cpc' = "backoff" /\ wait_time' = 2 ^ attempt) ]_vars

(* ===================== claims about the application ==================== *)

\* C2: at most one handler invocation is past the lock's acquisition.
C2_OneInFlight == Cardinality({t \in Threads : pc[t] \in InFlight}) <= 1

C2_Witness ==
    \E t, u \in Threads :
        /\ pc[t] = "improving"
        /\ cpc = "rate_sleep"
        /\ pc[u] = "entry"

\* C3: every accepted trigger comes back to idle with the lock free, whatever
\* exit path it takes, and the lock is free whenever no handler is in flight.
C3_ReturnsToIdle ==
    /\ []((\A t \in Threads : pc[t] \notin InFlight) => ~processing_lock)
    /\ \A t \in Threads :
          (pc[t] \in InFlight) ~> (pc[t] = "idle" /\ ~processing_lock)
    /\ [][\A t \in Threads :
            (pc[t] \in InFlight /\ pc'[t] \notin InFlight)
            => (pc'[t] = "idle" /\ ~processing_lock' /\ how[t] \in ExitPaths)]_vars

C3_Witness ==
    /\ \A t \in Threads : pc[t] = "idle"
    /\ ~processing_lock
    /\ pasted # None
    /\ events = <<>>

C5_ListenerNotBlocked ==
    (processing_lock /\ events # <<>>) => pc[Listener] = "idle"

\* C11: when nothing is selected in the focused application, the capture reports
\* none and the request ends there, without a call of the client and without a
\* paste, whatever the pasteboard held before: a request goes on from the
\* capture to the rewrite only when text was selected.
C11_NoSelectionNoRequest ==
    \A t \in Threads : pc[t] = "improve" => selection # None

(* ===================== claims about the text handler ==================== *)

\* C12: after replace_selected_text returns, whether the paste went through or
\* not, the pasteboard holds what it held immediately before the call, for
\* every prior content (none included).
C12_ClipboardRestored ==
    th_call.op = "replace_selected_text" => clipboard = th_call.before

\* C13: replace_selected_text returns False whenever the paste script failed and
\* True only when the paste keystroke was executed.
C13_ReportsPasteFailure ==
    th_call.op = "replace_selected_text"
    => /\ th_call.ret \in BOOLEAN
       /\ th_call.script = "failed" => th_call.ret = FALSE
       /\ th_call.ret = TRUE => (th_call.script = "ok" /\ pasted = th_call.arg)

(* ==================== claims about the configuration ==================== *)

\* The user's document is a mapping and load() has run on it.
LoadedDocument == cfg_file.tag = "dict" /\ load_ret # "-"

\* The merged credential is a non-empty string other than the placeholder.
CredentialGiven ==
    /\ config.tag = "dict"
    /\ "gemini" \in DOMAIN config.v
    /\ config.v["gemini"].tag = "dict"
    /\ "api_key" \in DOMAIN config.v["gemini"].v
    /\ config.v["gemini"].v["api_key"].tag = "str"
    /\ config.v["gemini"].v["api_key"].v \notin {"", "YOUR_GEMINI_API_KEY_HERE"}

\* The merged quota is a number in (0, 60].
QuotaInRange ==
    /\ config.tag = "dict"
    /\ "rate_limit" \in DOMAIN config.v
    /\ config.v["rate_limit"].tag = "dict"
    /\ "requests_per_minute" \in DOMAIN config.v["rate_limit"].v
    /\ config.v["rate_limit"].v["requests_per_minute"].tag = "int"
    /\ config.v["rate_limit"].v["requests_per_minute"].v > 0
    /\ config.v["rate_limit"].v["requests_per_minute"].v <= 60

\* C15: the merged configuration has every default key the user's document does
\* not mention with its default value and every key of the user's document
\* with the user's value, section by section and, within a section both have
\* as a mapping, key by key.
C15_MergeKeepsDefaults ==
    LoadedDocument =>
    LET user == cfg_file.v
        dflt == DEFAULT_CONFIG.v
        merged == config.v
    IN /\ config.tag = "dict"
       /\ DOMAIN merged = DOMAIN dflt \cup DOMAIN user
       /\ \A key \in DOMAIN dflt \ DOMAIN user : merged[key] = dflt[key]
       /\ \A key \in DOMAIN user \ DOMAIN dflt : merged[key] = user[key]
       /\ \A key \in DOMAIN user \cap DOMAIN dflt :
             IF user[key].tag = "dict" /\ dflt[key].tag = "dict"
             THEN /\ merged[key].tag = "dict"
                  /\ DOMAIN merged[key].v = DOMAIN dflt[key].v \cup DOMAIN user[key].v
                  /\ \A sub \in DOMAIN user[key].v :
                        merged[key].v[sub] = user[key].v[sub]
                  /\ \A sub \in DOMAIN dflt[key].v \ DOMAIN user[key].v :
                        merged[key].v[sub] = dflt[key].v[sub]
             ELSE merged[key] = user[key]

C15_Witness ==
    /\ load_ret # "-"
    /\ cfg_file = VDict(FromPairs({<<"rate_limit",
                        VDict(FromPairs({<<"requests_per_minute", VInt(30)>>}))>>}))
    /\ config.v["gemini"].v["model"] = VStr("gemini-2.0-flash-exp")
    /\ config.v["rate_limit"].v["requests_per_minute"] = VInt(30)

\* C16: for a document that is a mapping, load() succeeds exactly when the
\* merged credential is given and the merged quota is in (0, 60].
C16_LoadSucceedsIff ==
    LoadedDocument => (load_ret = "ok" <=> (CredentialGiven /\ QuotaInRange))

C16_Witness ==
    /\ load_ret = "ok"
    /\ config.v["rate_limit"].v["requests_per_minute"] = VInt(60)
    /\ config.v["gemini"].v["api_key"] = VStr("k")

\* C17: load() ends by returning a valid configuration, with FileNotFoundError
\* for a missing file, or with ValueError for a malformed or empty document, a
\* missing or placeholder credential or a quota out of range; nothing else
\* leaves it.
C17_DocumentedErrors ==
    /\ load_ret \in {"-", "ok", "FileNotFoundError", "ValueError"}
    /\ load_ret # "-" =>
          /\ cfg_file.tag = "missing" <=> load_ret = "FileNotFoundError"
          /\ cfg_file.tag \in {"malformed", "null"} => load_ret = "ValueError"
          /\ (cfg_file.tag = "dict" /\ ~CredentialGiven) => load_ret = "ValueError"
          /\ (cfg_file.tag = "dict" /\ ~QuotaInRange) => load_ret = "ValueError"
          /\ load_ret = "ok" => (cfg_file.tag = "dict" /\ CredentialGiven /\ QuotaInRange)

C17_Witness ==
    /\ cfg_file = VNull
    /\ load_ret = "ValueError"

(* ======================== claims about the process ====================== *)

\* C14: the log level and the log file in effect are the ones of the loaded
\* configuration (the user's values over the defaults).
C14_LoggingFromConfig ==
    mpc \in {"start", "listening", "announce", "paused"}
    => /\ log_level = config.v["logging"].v["level"].v
       /\ log_file = config.v["logging"].v["file"].v

C19_Shown(path) ==
    IF ~show_notifications THEN <<>>
    ELSE <<"Processing",
           CASE path = "no_selection" -> "No text selected"
             [] path = "improve_failed" -> "Failed to improve text"
             [] path = "replace_failed" -> "Failed to replace text"
             [] path = "improved" -> "Text improved"
             [] OTHER -> "An error occurred">>

\* The order of the stages of one invocation of the handler.
C19_Edges ==
    {<<"idle", "entry">>, <<"entry", "capture">>, <<"entry", "ignored">>,
     <<"ignored", "idle">>, <<"capture", "improve">>, <<"capture", "finally">>,
     <<"improve", "improving">>, <<"improve", "finally">>,
     <<"improving", "replace">>, <<"improving", "finally">>,
     <<"replace", "finally">>, <<"finally", "idle">>}

\* C19: an accepted trigger goes through capture, rewrite, replace and the final
\* notification in this order: the client is called only with captured text
\* that is not blank, the replacement is attempted only with a rewrite that is
\* not empty, and the request ends with exactly one final notification, the
\* one of the stage that ended it (none when notifications are off).
C19_StageOrder ==
    /\ [](\A t \in Threads :
            /\ pc[t] \in {"improve", "improving"}
               => (~Blank(selected_text[t]) /\ improved_text[t] = None)
            /\ pc[t] = "replace"
               => (~Blank(selected_text[t]) /\ improved_text[t] \notin {None, <<>>})
            /\ pc[t] \in InFlight \ {"finally"}
               => notes = (IF show_notifications THEN <<"Processing">> ELSE <<>>)
            /\ pc[t] = "finally"
               => /\ how[t] \in ExitPaths
                  /\ notes = C19_Shown(how[t])
                  /\ how[t] = "no_selection" => selected_text[t] = None
                  /\ how[t] = "improve_failed"
                     => (~Blank(selected_text[t]) /\ improved_text[t] \in {None, <<>>})
                  /\ how[t] \in {"replace_failed", "improved"}
                     => improved_text[t] \notin {None, <<>>})
    /\ [](cpc # "idle" => \E t \in Threads : pc[t] = "improving")
    /\ [][\A t \in Threads : pc'[t] # pc[t] => <<pc[t], pc'[t]>> \in C19_Edges]_vars
    /\ [][pasted' # pasted => \E t \in Threads : pc[t] = "replace"]_vars

C19_Witness ==
    \E t \in Threads :
        /\ pc[t] = "finally"
        /\ how[t] = "replace_failed"
        /\ notes = <<"Processing", "Failed to replace text">>

(* ================= claims about the timestamp record ================== *)

\* The record is in non-decreasing time order.
C20_Ordered ==
    \A i \in 1..(Len(request_times) - 1) : request_times[i] <= request_times[i + 1]

\* C20: the timestamp record never holds more than requests_per_minute entries
\* and is in non-decreasing order; when an accepted call has recorded its
\* timestamp, that is the newest entry, and no entry is more than 60 seconds
\* older than the time the call was made.
C20_RecordBounded ==
    /\ [](Len(request_times) <= requests_per_minute /\ C20_Ordered)
    /\ [][(cpc = "idle" /\ cpc' \notin {"idle", "rate_sleep"}
            /\ ~Blank(c_text') /\ c_mode' \in ModeNames)
           => /\ request_times' # <<>>
              /\ request_times'[Len(request_times')] = now
              /\ \A i \in 1..Len(request_times') : now - request_times'[i] <= 60]_vars
    /\ [][(cpc = "rate_sleep" /\ cpc' # "rate_sleep")
           => /\ request_times' # <<>>
              /\ request_times'[Len(request_times')] = now'
              /\ \A i \in 1..Len(request_times') : now - request_times'[i] <= 60]_vars

C20_Witness ==
    /\ cpc = "attempt"
    /\ requests_per_minute = 2
    /\ request_times = <<30, 60>>
    /\ now = 60

(* ================= claims about the client's return value ================ *)

\* C21: a value improve_text returns other than None is a string that is not
\* empty and has no whitespace at either end, whatever the provider answered.
C21_TrimmedNonEmpty ==
    (cpc = "ret" /\ result # None)
    => /\ result # <<>>
       /\ result[1] # " "
       /\ result[Len(result)] # " "

\* C22: when all max_retries attempts raise, the call sleeps after each attempt
\* but the last, 2^0 + ... + 2^(max_retries-2) seconds in total (nothing for
\* max_retries <= 1), and returns None straight after the last attempt; with
\* max_retries = 0 no attempt is made.
C22_NoSleepAfterLast ==
    /\ []((/\ cpc = "ret"
           /\ ~Blank(c_text) /\ c_mode \in ModeNames
           /\ \A i \in 1..Len(outcomes) : outcomes[i] = Err)
          => /\ Len(outcomes) = max_retries
             /\ Len(backoffs) = (IF max_retries <= 1 THEN 0 ELSE max_retries - 1)
             /\ SumSeq(backoffs) = (IF max_retries <= 1 THEN 0 ELSE 2 ^ (max_retries - 1) - 1)
             /\ max_retries = 0 => (attempt_times = <<>> /\ result = None))
    /\ [][(/\ cpc = "attempt"
           /\ attempt = max_retries - 1
           /\ Len(outcomes') = Len(outcomes) + 1
           /\ outcomes'[Len(outcomes')] = Err)
          => (cpc' = "ret" /\ now' = now /\ result' = None /\ backoffs' = backoffs)]_vars

C22_Witness ==
    /\ cpc = "ret"
    /\ max_retries = 3
    /\ Len(outcomes) = 3
    /\ \A i \in 1..3 : outcomes[i] = Err
    /\ SumSeq(backoffs) = 3
    /\ attempt_times[3] - attempt_times[1] = 3

(* ============== claims about the configuration being held =============== *)

\* C23: a load() that fails leaves the configuration held as it was.
C23_FailedLoadKeepsConfig ==
    [][(load_ret' \notin {"-", "ok"}) => config' = config]_vars

(* ---- C24: HotkeyManager.start() and stop() ---- *)
\* C24: after any sequence of start() and stop() calls, also ones in which the
\* listener's constructor, start or stop raises, is_running is true exactly when
\* a listener object is held, at most one listener is active, start() while
\* running creates no second listener and stop() while not running changes nothing.
C24_RunningIffListener ==
    /\ [](hk_is_running <=> hk_listener # "none")
    /\ [](hk_active <= 1)
    /\ [][(hk_last'.op = "start" /\ hk_is_running)
          => UNCHANGED <<hk_listener, hk_is_running, hk_active>>]_vars
    /\ [][(hk_last'.op = "stop" /\ ~hk_is_running)
          => UNCHANGED <<hotkeys, hk_listener, hk_is_running, hk_active>>]_vars

(* ---- C25: registering hotkeys ---- *)
\* all parts of the combination are modifier names
C25_NoKey(s) ==
    \A i \in DOMAIN s.parts : s.parts[i] \in {"cmd", "ctrl", "alt", "option", "shift"}

\* the combination is refused: no string, no non-modifier key, or it does not parse
C25_Refused(s) == ~s.is_str \/ C25_NoKey(s) \/ ~ParseOk(s)

\* C25: register_hotkey never raises; a combination without a non-modifier key
\* or one that does not parse adds no binding and leaves every binding as it was;
\* register_multiple_hotkeys goes on with the remaining modes after a refused
\* one; a successful registration adds the one entry from that combination
\* string to its mode and leaves the others alone, and the entry's activation
\* calls the callback with that mode.
C25_RegisterNeverRaises ==
    [][/\ hk_last'.op \in {"register_hotkey", "register_multiple_hotkeys"}
          => ~hk_last'.raised
       /\ hk_last'.op = "register_hotkey"
          => LET s == hk_last'.items[1].hotkey_str
                 mode == hk_last'.items[1].mode
             IN IF C25_Refused(s)
                THEN hotkeys' = hotkeys
                ELSE /\ DOMAIN hotkeys' = DOMAIN hotkeys \cup {s}
                     /\ hotkeys'[s].mode = mode
                     /\ \A x \in DOMAIN hotkeys \ {s} : hotkeys'[x] = hotkeys[x]
       /\ hk_last'.op = "register_multiple_hotkeys"
          => LET items == hk_last'.items
                 given == {items[i].hotkey_str : i \in DOMAIN items}
             IN /\ \A i \in DOMAIN items :
                      ~C25_Refused(items[i].hotkey_str)
                      => /\ items[i].hotkey_str \in DOMAIN hotkeys'
                         /\ (\A j \in DOMAIN items :
                                (j > i /\ items[j].hotkey_str = items[i].hotkey_str)
                                => C25_Refused(items[j].hotkey_str))
                            => hotkeys'[items[i].hotkey_str].mode = items[i].mode
                /\ \A x \in DOMAIN hotkeys' :
                      x \in DOMAIN hotkeys \/ (x \in given /\ ~C25_Refused(x))
                /\ \A x \in DOMAIN hotkeys :
                      /\ x \in DOMAIN hotkeys'
                      /\ (x \notin given \/ C25_Refused(x)) => hotkeys'[x] = hotkeys[x]
       /\ hk_last'.op = "press"
          => hk_called' = hotkeys[hk_last'.items[1].hotkey_str].mode
      ]_vars

\* register_multiple_hotkeys was given "cmd+option" (no key) for grammar_fix and
\* then "cmd+g" for formal: the registry holds the second binding alone.
C25_Witness ==
    /\ hk_last = HkCall("register_multiple_hotkeys",
                        <<Item("grammar_fix", HotkeyStr(<<"cmd", "option">>)),
                          Item("formal", HotkeyStr(<<"cmd", "g">>))>>, FALSE)
    /\ DOMAIN hotkeys = {HotkeyStr(<<"cmd", "g">>)}
    /\ hotkeys[HotkeyStr(<<"cmd", "g">>)].mode = "formal"

====
